---- MODULE Spec2Model ----
(***************************************************************************)
(* State-machine model of selenium_webscrap.py: the link harvest over the  *)
(* listing table, the per-link traversal with its field extractors, and    *)
(* the three JSON dumps.                                                   *)
(*                                                                         *)
(* Texts (innerText, href, ...) are sequences of one-character strings so  *)
(* that slicing, splitting and parsing are computed as Python computes     *)
(* them.  Dictionary keys (display names, labels) are strings.  Python     *)
(* values are tagged: <<"none">>, <<"text", s>>, <<"int", n>>,             *)
(* <<"bool", b>>, <<"unbound">> (a name not yet assigned).                 *)
(***************************************************************************)
EXTENDS Integers, Sequences, FiniteSets, TLC

VARIABLES pc, pos, doc, links, diag, files, data, cnt, li, name, url,
          record, value, k, obs, table

vars == <<pc, pos, doc, links, diag, files, data, cnt, li, name, url,
          record, value, k, obs, table>>

(***************************************************************************)
(* Bounds of the model.                                                    *)
(***************************************************************************)
\* Largest number of list items on the listing page.
MaxItems == 3
\* The item cap (LIMIT = 150 in the source), scaled down.
LIMIT == 1
\* Longest generated price text.
MaxPriceLen == 3

(***************************************************************************)
(* Program constants.                                                      *)
(***************************************************************************)
StatCount == 4
InfoCount == 7

(***************************************************************************)
(* Python values.                                                          *)
(***************************************************************************)
NoneVal == <<"none">>
Unbound == <<"unbound">>
Text(s) == <<"text", s>>
IntV(n) == <<"int", n>>
BoolV(b) == <<"bool", b>>
IsText(v) == v[1] = "text"

(***************************************************************************)
(* Python str operations on character sequences.                           *)
(***************************************************************************)
LowerMap == ("P" :> "p" @@ "N" :> "n" @@ "G" :> "g" @@ "C" :> "c")
LowerText(s) == [i \in 1..Len(s) |-> IF s[i] \in DOMAIN LowerMap THEN LowerMap[s[i]] ELSE s[i]]

\* str.find, 1-based: the first place sub occurs in s, 0 when it does not.
FindText(s, sub) ==
    LET hits == {i \in 1..(Len(s) - Len(sub) + 1) : SubSeq(s, i, i + Len(sub) - 1) = sub}
    IN IF hits = {} THEN 0 ELSE CHOOSE i \in hits : \A j \in hits : i <= j

\* sub in s
InText(sub, s) == FindText(s, sub) # 0

\* s.replace(c, r) for a single character c and a replacement text r.
RECURSIVE ReplaceText(_, _, _)
ReplaceText(s, c, r) ==
    IF s = <<>> THEN <<>>
    ELSE (IF Head(s) = c THEN r ELSE <<Head(s)>>) \o ReplaceText(Tail(s), c, r)

\* s.split(c) for a single character c: the list of segments.
RECURSIVE SplitText(_, _)
SplitText(s, c) ==
    LET i == FindText(s, <<c>>)
    IN IF i = 0 THEN <<s>>
       ELSE <<SubSeq(s, 1, i - 1)>> \o SplitText(SubSeq(s, i + 1, Len(s)), c)

DigitVal == ("0" :> 0 @@ "1" :> 1 @@ "2" :> 2 @@ "3" :> 3 @@ "4" :> 4 @@
             "5" :> 5 @@ "6" :> 6 @@ "7" :> 7 @@ "8" :> 8 @@ "9" :> 9)
Digits == DOMAIN DigitVal
\* Characters str.isnumeric accepts: the decimal digits and, of the
\* non-decimal numerics, the vulgar fraction one half.
NumericChars == Digits \cup {"½"}

\* str.isnumeric
IsNumeric(s) == s # <<>> /\ \A i \in 1..Len(s) : s[i] \in NumericChars

RECURSIVE DigitsValue(_)
DigitsValue(s) ==
    IF s = <<>> THEN 0
    ELSE 10 * DigitsValue(SubSeq(s, 1, Len(s) - 1)) + DigitVal[s[Len(s)]]

\* int(s): an optional sign, then decimal digits, single underscores allowed
\* between digits.  [ok |-> FALSE] stands for ValueError.
PyInt(s) ==
    LET signed == s # <<>> /\ s[1] \in {"+", "-"}
        body   == IF signed THEN Tail(s) ELSE s
        wellformed ==
            /\ body # <<>>
            /\ \A i \in 1..Len(body) : body[i] \in Digits \cup {"_"}
            /\ body[1] # "_" /\ body[Len(body)] # "_"
            /\ \A i \in 1..(Len(body) - 1) : ~(body[i] = "_" /\ body[i + 1] = "_")
        n == DigitsValue(ReplaceText(body, "_", <<>>))
    IN IF wellformed
       THEN [ok |-> TRUE, n |-> IF signed /\ s[1] = "-" THEN 0 - n ELSE n]
       ELSE [ok |-> FALSE, n |-> 0]

(***************************************************************************)
(* Python dict: insertion-ordered, a sequence of [k, v] entries with       *)
(* distinct keys.                                                          *)
(***************************************************************************)
DictHas(d, key) == \E i \in 1..Len(d) : d[i].k = key
DictGet(d, key) == d[CHOOSE i \in 1..Len(d) : d[i].k = key].v
DictKeys(d) == [i \in 1..Len(d) |-> d[i].k]

\* First write wins: an insertion under an existing key is dropped.
DictSetKeepFirst(d, key, val) ==
    IF DictHas(d, key) THEN d ELSE Append(d, [k |-> key, v |-> val])

\* d[key] = val: a new key is appended, an existing key keeps its place and
\* takes the new value.
DictSet(d, key, val) ==
    IF DictHas(d, key)
    THEN [i \in 1..Len(d) |-> IF d[i].k = key THEN [k |-> key, v |-> val] ELSE d[i]]
    ELSE Append(d, [k |-> key, v |-> val])

(***************************************************************************)
(* Link harvest (lines 155-170).                                           *)
(***************************************************************************)
Levels == {"item", "list", "cell", "row"}

\* The coordinates <<row, cell, list, item>> of the next list item the
\* nested loops visit, given at which loop level the iteration advances.
NextPos(p, lvl) ==
    CASE lvl = "item" -> <<p[1], p[2], p[3], p[4] + 1>>
      [] lvl = "list" -> <<p[1], p[2], p[3] + 1, 1>>
      [] lvl = "cell" -> <<p[1], p[2] + 1, 1, 1>>
      [] lvl = "row"  -> <<p[1] + 1, 1, 1, 1>>

\* The body of the innermost loop without its try/except: a missing anchor
\* propagates.
HarvestLiUnguarded(lk, item) ==
    IF ~item.anchor
    THEN [links |-> lk, printed |-> 0, raised |-> TRUE]
    ELSE [links |-> DictSet(lk, item.text, item.href), printed |-> 0, raised |-> FALSE]

\* The body of the innermost loop for one list item: try find_element("a"),
\* print the diagnostic on any exception, else record innerText -> href.
HarvestLi(lk, item) ==
    IF ~item.anchor
    THEN [links |-> lk, printed |-> 1, raised |-> FALSE]
    ELSE [links |-> DictSet(lk, item.text, item.href), printed |-> 0, raised |-> FALSE]

HarvestItem(P) ==
    /\ pc = "harvest"
    /\ Len(doc) < MaxItems
    /\ \E lvl \in P.levels, item \in P.items :
         LET r == HarvestLi(links, item)
         IN /\ pos' = NextPos(pos, lvl)
            /\ doc' = Append(doc, item)
            /\ links' = r.links
            /\ diag' = diag + r.printed
            /\ pc' = IF r.raised THEN "halted" ELSE "harvest"
    /\ UNCHANGED <<files, data, cnt, li, name, url, record, value, k, obs, table>>

\* write_json(file_path, data)
WriteJson(fs, path, content) == Append(fs, [path |-> path, content |-> content])

\* The loops are exhausted: write_json("gta_links.json", links); data = {};
\* cnt = 0.
WriteLinks ==
    /\ pc = "harvest"
    /\ files' = WriteJson(files, "gta_links.json", links)
    /\ data' = <<>>
    /\ cnt' = 0
    /\ li' = 0
    /\ pc' = "loop"
    /\ UNCHANGED <<pos, doc, links, diag, name, url, record, value, k, obs, table>>

NoObs == [what |-> "none"]

Init ==
    /\ pc = "harvest"
    /\ pos = <<1, 1, 1, 0>>
    /\ doc = <<>>
    /\ links = <<>>
    /\ diag = 0
    /\ files = <<>>
    /\ data = <<>>
    /\ cnt = 0
    /\ li = 0
    /\ name = ""
    /\ url = Unbound
    /\ record = <<>>
    /\ value = Unbound
    /\ k = 0
    /\ obs = NoObs
    /\ table = <<>>

(***************************************************************************)
(* Item traversal (lines 176-244).                                         *)
(***************************************************************************)
\* driver.get(url): raises for an argument that is no URL text (None, "")
\* and when the navigation itself fails.
GetRaises(u, nav) == ~IsText(u) \/ u[2] = <<>> \/ ~nav

\* for name, url in links.items(): cnt += 1; record = {}; driver.get(url);
\* record["link"] = url      (lines 178-185)
NextLink(P) ==
    /\ pc = "loop"
    /\ li < Len(links)
    /\ \E nav \in P.nav :
         LET e == links[li + 1]
         IN /\ li' = li + 1
            /\ name' = e.k
            /\ url' = e.v
            /\ cnt' = cnt + 1
            /\ obs' = [what |-> "page", in |-> nav]
            /\ IF GetRaises(e.v, nav)
               THEN record' = <<>> /\ pc' = "halted"
               ELSE record' = DictSet(<<>>, "link", e.v) /\ pc' = "image"
    /\ UNCHANGED <<pos, doc, links, diag, files, data, value, k, table>>

\* links.items() is exhausted.
LoopExit ==
    /\ pc = "loop"
    /\ li >= Len(links)
    /\ pc' = "write_data"
    /\ UNCHANGED <<pos, doc, links, diag, files, data, cnt, li, name, url,
                   record, value, k, obs, table>>

PngExt == <<".", "p", "n", "g">>

\* Lines 187-190 on the hero container img = [container, anchor, href]:
\* find_element twice (NoSuchElementException), href.lower() (AttributeError
\* on None), .index(".png") (ValueError), the slice through the extension.
ImageOf(img) ==
    IF ~img.container \/ ~img.anchor \/ ~IsText(img.href)
    THEN [raised |-> TRUE, v |-> NoneVal]
    ELSE LET h == img.href[2]
             i == FindText(LowerText(h), PngExt)
         IN IF i = 0
            THEN [raised |-> TRUE, v |-> NoneVal]
            ELSE [raised |-> FALSE, v |-> Text(SubSeq(h, 1, i - 1 + 4))]

\* The image failure caught at the item boundary: the item is skipped and the
\* loop goes on.
SetImageCaught(P) ==
    /\ pc = "image"
    /\ \E img \in P.images :
         LET r == ImageOf(img)
         IN /\ obs' = [what |-> "image", in |-> img]
            /\ url' = IF img.container /\ img.anchor THEN img.href ELSE url
            /\ IF r.raised
               THEN record' = record /\ pc' = "loop"
               ELSE record' = DictSet(record, "image", r.v) /\ pc' = "class"
    /\ UNCHANGED <<pos, doc, links, diag, files, data, cnt, li, name, value, k, table>>

SetImage(P) ==
    /\ pc = "image"
    /\ \E img \in P.images :
         LET r == ImageOf(img)
         IN /\ obs' = [what |-> "image", in |-> img]
            /\ url' = IF img.container /\ img.anchor THEN img.href ELSE url
            /\ IF r.raised
               THEN record' = record /\ pc' = "halted"
               ELSE record' = DictSet(record, "image", r.v) /\ pc' = "class"
    /\ UNCHANGED <<pos, doc, links, diag, files, data, cnt, li, name, value, k, table>>

\* Lines 192-195: `value` is assigned only when a div with data-source
\* "class" exists (div is its innerText, NoneVal when there is none).
ClassValue(div, old) == IF div # NoneVal THEN div ELSE old

\* Line 196: value.split("\n")[1].split("(")[0]; NameError for an unbound
\* name, AttributeError for a bool or an int, IndexError for a single line.
ClassOf(val) ==
    IF ~IsText(val)
    THEN [raised |-> TRUE, v |-> NoneVal]
    ELSE LET lines == SplitText(val[2], "\n")
         IN IF Len(lines) < 2
            THEN [raised |-> TRUE, v |-> NoneVal]
            ELSE [raised |-> FALSE, v |-> Text(SplitText(lines[2], "(")[1])]

SetClass(P) ==
    /\ pc = "class"
    /\ \E div \in P.classDivs :
         LET val == ClassValue(div, value)
             r   == ClassOf(val)
         IN /\ obs' = [what |-> "class", in |-> div]
            /\ value' = val
            /\ IF r.raised
               THEN record' = record /\ pc' = "halted"
               ELSE record' = DictSet(record, "CLASS", r.v) /\ pc' = "price"
    /\ UNCHANGED <<pos, doc, links, diag, files, data, cnt, li, name, url, k, table>>

\* The token the price is parsed from, with only the thousands separators
\* removed: a closing or opening parenthesis and a newline stay in it.
PriceTokenCommasOnly(t) ==
    LET p == ReplaceText(t, ",", <<>>)
        i == FindText(p, <<"$">>)
    IN ReplaceText(SplitText(SubSeq(p, i, Len(p)), " ")[1], "$", <<>>)

\* Lines 203-205: price.replace(",", "").replace("\n", " ").replace("(", " "),
\* then price[idx:].split(" ")[0].replace("$", "").
PriceToken(t) ==
    LET p == ReplaceText(ReplaceText(ReplaceText(t, ",", <<>>), "\n", <<" ">>), "(", <<" ">>)
        i == FindText(p, <<"$">>)
    IN ReplaceText(SplitText(SubSeq(p, i, Len(p)), " ")[1], "$", <<>>)

\* Lines 198-205 on the price element el (NoneVal: find_elements found
\* none; else its innerText).
PriceOf(el) ==
    IF el = NoneVal \/ ~InText(<<"$">>, el[2])
    THEN [raised |-> FALSE, has |-> FALSE, v |-> NoneVal]
    ELSE LET n == PyInt(PriceToken(el[2]))
         IN IF n.ok
            THEN [raised |-> FALSE, has |-> TRUE, v |-> IntV(n.n)]
            ELSE [raised |-> TRUE, has |-> FALSE, v |-> NoneVal]

SetPrice(P) ==
    /\ pc = "price"
    /\ \E el \in P.prices :
         LET r == PriceOf(el)
         IN /\ obs' = [what |-> "price", in |-> el]
            /\ record' = IF r.has THEN DictSet(record, "PRICE", r.v) ELSE record
            /\ pc' = IF r.raised THEN "halted" ELSE "find_stats"
    /\ UNCHANGED <<pos, doc, links, diag, files, data, cnt, li, name, url, value, k, table>>

\* Lines 207-209: the stats container, when there is one.
FindStats(P) ==
    /\ pc = "find_stats"
    /\ \E c \in P.statsC :
         /\ obs' = [what |-> "stats", in |-> c]
         /\ pc' = IF c THEN "stat" ELSE "find_infos"
    /\ k' = 0
    /\ UNCHANGED <<pos, doc, links, diag, files, data, cnt, li, name, url,
                   record, value, table>>

\* Lines 211-220 for one index, on the widget w = [title, label, data, bar,
\* width]: both find_element calls raise when the element is missing; the
\* bar is optional.
StatOf(rec, w) ==
    IF ~w.title \/ ~w.data
    THEN [raised |-> TRUE, record |-> rec]
    ELSE [raised |-> FALSE,
          record |-> IF w.bar THEN DictSet(rec, w.label, IntV(w.width)) ELSE rec]

StatStep(P) ==
    /\ pc = "stat"
    /\ \E w \in P.stats :
         LET r == StatOf(record, w)
         IN /\ obs' = [what |-> "stat", idx |-> k, in |-> w]
            /\ record' = r.record
            /\ pc' = IF r.raised THEN "halted"
                     ELSE IF k + 1 = StatCount THEN "find_infos" ELSE "stat"
    /\ k' = k + 1
    /\ UNCHANGED <<pos, doc, links, diag, files, data, cnt, li, name, url, value, table>>

\* Lines 222-224: the info container, when there is one.
FindInfos(P) ==
    /\ pc = "find_infos"
    /\ \E c \in P.infosC :
         /\ obs' = [what |-> "infos", in |-> c]
         /\ pc' = IF c THEN "info" ELSE "add"
    /\ k' = 0
    /\ UNCHANGED <<pos, doc, links, diag, files, data, cnt, li, name, url,
                   record, value, table>>

CheckMarker == <<"C", "h", "e", "c", "k">>

\* The info value with the numeric coercion left out.
InfoValueNoCoercion(w) ==
    IF w.text = <<>>
    THEN IF ~w.img \/ ~IsText(w.icon)
         THEN [raised |-> TRUE, v |-> IF w.img THEN BoolV(FALSE) ELSE Text(w.text)]
         ELSE [raised |-> FALSE, v |-> BoolV(InText(CheckMarker, w.icon[2]))]
    ELSE [raised |-> FALSE, v |-> Text(w.text)]

\* Lines 232-239 on the data element of w = [title, label, data, text, img,
\* icon]: v is what `value` holds when the statements end or raise
\* (NoSuchElementException for the image, TypeError for a missing
\* data-image-name, ValueError from int).
InfoValue(w) ==
    IF w.text = <<>>
    THEN IF ~w.img
         THEN [raised |-> TRUE, v |-> Text(w.text)]
         ELSE IF ~IsText(w.icon)
         THEN [raised |-> TRUE, v |-> BoolV(FALSE)]
         ELSE [raised |-> FALSE, v |-> BoolV(InText(CheckMarker, w.icon[2]))]
    ELSE IF IsNumeric(w.text)
    THEN LET n == PyInt(w.text)
         IN IF n.ok THEN [raised |-> FALSE, v |-> IntV(n.n)]
            ELSE [raised |-> TRUE, v |-> Text(w.text)]
    ELSE [raised |-> FALSE, v |-> Text(w.text)]

\* Lines 226-240 for one index.
InfoStep(P) ==
    /\ pc = "info"
    /\ \E w \in P.infos :
         /\ obs' = [what |-> "info", idx |-> k, in |-> w]
         /\ IF ~w.title \/ ~w.data
            THEN /\ pc' = "halted"
                 /\ UNCHANGED <<record, value>>
            ELSE LET r == InfoValue(w)
                 IN /\ value' = r.v
                    /\ record' = IF r.raised THEN record ELSE DictSet(record, w.label, r.v)
                    /\ pc' = IF r.raised THEN "halted"
                             ELSE IF k + 1 = InfoCount THEN "add" ELSE "info"
    /\ k' = k + 1
    /\ UNCHANGED <<pos, doc, links, diag, files, data, cnt, li, name, url, table>>

\* Line 243: if cnt > LIMIT: break
CapReached(c) == c > LIMIT

\* Lines 242-244: data[name] = record; if cnt > LIMIT: break
AddRecord ==
    /\ pc = "add"
    /\ data' = DictSet(data, name, record)
    /\ pc' = IF CapReached(cnt) THEN "write_data" ELSE "loop"
    /\ UNCHANGED <<pos, doc, links, diag, files, cnt, li, name, url, record,
                   value, k, obs, table>>

(***************************************************************************)
(* The dumps (lines 246-261).                                              *)
(***************************************************************************)
\* write_json("gta_vehicles.json", data); table = []
WriteData ==
    /\ pc = "write_data"
    /\ files' = WriteJson(files, "gta_vehicles.json", data)
    /\ table' = <<>>
    /\ pc' = "table"
    /\ UNCHANGED <<pos, doc, links, diag, data, cnt, li, name, url, record,
                   value, k, obs>>

\* A text value given by a display name.
NameV(n) == <<"name", n>>

\* Lines 256-257: for key, value in values.items(): record[key] = value
RECURSIVE CopyFields(_, _)
CopyFields(rec, values) ==
    IF values = <<>> THEN rec
    ELSE CopyFields(DictSet(rec, Head(values).k, Head(values).v), Tail(values))

\* Lines 255-257 for one Catalog entry.
TableRecord(e) == CopyFields(DictSet(<<>>, "Vehicle", NameV(e.k)), e.v)

\* Lines 253-258.
TableOf(d) == [i \in 1..Len(d) |-> TableRecord(d[i])]

BuildTable ==
    /\ pc = "table"
    /\ table' = TableOf(data)
    /\ pc' = "write_table"
    /\ UNCHANGED <<pos, doc, links, diag, files, data, cnt, li, name, url,
                   record, value, k, obs>>

\* write_json("Vehicles_Table.json", table)
WriteTable ==
    /\ pc = "write_table"
    /\ files' = WriteJson(files, "Vehicles_Table.json", table)
    /\ pc' = "done"
    /\ UNCHANGED <<pos, doc, links, diag, data, cnt, li, name, url, record,
                   value, k, obs, table>>

(***************************************************************************)
(* Inputs of the harvest: the list items a listing page may hold.          *)
(***************************************************************************)
U1 == <<"/", "a">>
U2 == <<"/", "b">>
NoAnchorLi == [anchor |-> FALSE, text |-> "", href |-> NoneVal]
AnchorLi(t, h) == [anchor |-> TRUE, text |-> t, href |-> h]

PHarvest ==
    [levels |-> Levels,
     items  |-> {NoAnchorLi} \cup {AnchorLi(t, h) : t \in {"A", "B"}, h \in {Text(U1), Text(U2)}}
                \cup {AnchorLi("", Text(U1)), AnchorLi("A", NoneVal), AnchorLi("B", Text(<<>>))}]

NextHarvest == HarvestItem(PHarvest) \/ WriteLinks
SpecHarvest == Init /\ [][NextHarvest]_vars

(***************************************************************************)
(* Inputs of the traversal: what a detail page may hold.                   *)
(***************************************************************************)
Hero(h) == [container |-> TRUE, anchor |-> TRUE, href |-> h]
PngLower == <<"a", ".", "p", "n", "g">>
PngUpper == <<"b", ".", "P", "N", "G", "?", "r">>
NoPng == <<"c", ".", "j", "p", "g">>
GoodImages == {Hero(Text(PngLower)), Hero(Text(PngUpper))}
BadImages == {Hero(Text(NoPng)), Hero(NoneVal),
              [container |-> FALSE, anchor |-> FALSE, href |-> NoneVal],
              [container |-> TRUE, anchor |-> FALSE, href |-> NoneVal]}

\* "Class\nSuper(Sports)" and "Class\nVans", shortened.
ClassSuper == <<"C", "\n", "S", "(", "x", ")">>
ClassVans == <<"C", "\n", "V">>
ClassOneLine == <<"C">>

Stat(l, w) == [title |-> TRUE, label |-> l, data |-> TRUE, bar |-> TRUE, width |-> w]
StatNoBar(l) == [title |-> TRUE, label |-> l, data |-> TRUE, bar |-> FALSE, width |-> 0]
StatNoTitle == [title |-> FALSE, label |-> "", data |-> TRUE, bar |-> FALSE, width |-> 0]
StatNoData == [title |-> TRUE, label |-> "Speed", data |-> FALSE, bar |-> FALSE, width |-> 0]

InfoText(l, t) == [title |-> TRUE, label |-> l, data |-> TRUE, text |-> t, img |-> FALSE, icon |-> NoneVal]
InfoIcon(l, i) == [title |-> TRUE, label |-> l, data |-> TRUE, text |-> <<>>, img |-> TRUE, icon |-> i]
InfoNoIcon(l) == InfoText(l, <<>>)
InfoNoTitle == [title |-> FALSE, label |-> "", data |-> TRUE, text |-> <<>>, img |-> FALSE, icon |-> NoneVal]
InfoNoData == [title |-> TRUE, label |-> "Seats", data |-> FALSE, text |-> <<>>, img |-> FALSE, icon |-> NoneVal]

IconCheck == <<"X", "-", "C", "h", "e", "c", "k", ".">>
IconCross == <<"C", "r", "o", "s", "s">>
IconLowerCheck == <<"c", "h", "e", "c", "k">>
IconChec == <<"C", "h", "e", "c">>
T42 == <<"4", "2">>
T007 == <<"0", "0", "7">>
THalf == <<"4", "½">>
TDrive == <<"R", "W", "D">>
T2Door == <<"2", "d">>
TTwoLines == <<"D", "\n", "R", "(", "w">>

\* The links mapping after a harvest of one anchor per name, and the
\* listing page it was harvested from.
LinksOf(names) == [i \in 1..Len(names) |-> [k |-> names[i], v |-> Text(U1)]]
DocOf(lk) == [i \in 1..Len(lk) |-> AnchorLi(lk[i].k, lk[i].v)]

\* The state after line 170 (the harvest done, gta_links.json written).
InitTraverse(L) ==
    /\ links \in L
    /\ doc = DocOf(links)
    /\ pos = <<1, 1, 1, Len(links)>>
    /\ pc = "loop"
    /\ diag = 0
    /\ files = WriteJson(<<>>, "gta_links.json", links)
    /\ data = <<>>
    /\ cnt = 0
    /\ li = 0
    /\ name = ""
    /\ url = Unbound
    /\ record = <<>>
    /\ value = Unbound
    /\ k = 0
    /\ obs = NoObs
    /\ table = <<>>

Traverse(P) ==
    \/ NextLink(P)
    \/ LoopExit
    \/ SetImage(P)
    \/ SetClass(P)
    \/ SetPrice(P)
    \/ FindStats(P)
    \/ StatStep(P)
    \/ FindInfos(P)
    \/ InfoStep(P)
    \/ AddRecord
    \/ WriteData
    \/ BuildTable
    \/ WriteTable

\* The whole run, over pages that differ in the listing and in which
\* extraction fails.
PRun ==
    [levels    |-> {"item"},
     items     |-> {NoAnchorLi, AnchorLi("A", Text(U1)), AnchorLi("B", Text(U2)),
                    AnchorLi("C", Text(U1)), AnchorLi("D", NoneVal)},
     nav       |-> BOOLEAN,
     images    |-> {Hero(Text(PngLower))} \cup BadImages,
     classDivs |-> {Text(ClassSuper), Text(ClassOneLine)},
     prices    |-> {Text(<<"$", "5">>), Text(<<"$", "5", ")">>)},
     statsC    |-> {TRUE},
     stats     |-> {Stat("Speed", 40), StatNoTitle, StatNoData},
     infosC    |-> {TRUE},
     infos     |-> {InfoText("Seats", T42), InfoNoTitle, InfoNoData, InfoNoIcon("Seats"),
                    InfoText("Seats", THalf)}]

Next == HarvestItem(PRun) \/ WriteLinks \/ Traverse(PRun)
Spec == Init /\ [][Next]_vars

(***************************************************************************)
(* Properties of the harvest, checked under SpecHarvest.                   *)
(***************************************************************************)
AnchorsNamed(n) == {i \in 1..Len(doc) : doc[i].anchor /\ doc[i].text = n}
FirstAnchor(n) == CHOOSE i \in AnchorsNamed(n) : \A j \in AnchorsNamed(n) : i <= j
LastAnchor(n) == CHOOSE i \in AnchorsNamed(n) : \A j \in AnchorsNamed(n) : i >= j
NoAnchorCount == Cardinality({i \in 1..Len(doc) : ~doc[i].anchor})

C1_State ==
    /\ pc \in {"harvest", "loop"}
    /\ diag = NoAnchorCount
    /\ \A i, j \in 1..Len(doc) :
         (i < j /\ ~doc[i].anchor /\ doc[j].anchor) => DictHas(links, doc[j].text)

C1_Step ==
    (pc = "harvest" /\ Len(doc') = Len(doc) + 1 /\ ~doc'[Len(doc')].anchor)
        => (links' = links /\ pc' = "harvest" /\ diag' = diag + 1)

\* C1: a list item without an anchor only prints a diagnostic and is
\* skipped: the harvest goes on, the links recorded so far stay as they are,
\* and every later list item with an anchor is recorded.
C1_SkipOnly == [](C1_State) /\ [][C1_Step]_vars

\* A harvest that recorded a link, met an item without anchor, and recorded
\* a later link under another name.
C1_Witness ==
    /\ pc = "loop"
    /\ Len(doc) = 3
    /\ doc[1].anchor /\ ~doc[2].anchor /\ doc[3].anchor
    /\ doc[1].text # doc[3].text
    /\ Len(links) = 2
    /\ diag = 1

\* C3: every entry of the link mapping has a non-empty text display name and
\* a non-empty text URL.
C3_NonEmpty ==
    \A i \in 1..Len(links) :
        /\ links[i].k # ""
        /\ IsText(links[i].v)
        /\ links[i].v[2] # <<>>

LexLess(p, q) ==
    \E i \in 1..4 : p[i] < q[i] /\ \A j \in 1..(i - 1) : p[j] = q[j]

C9_State ==
    /\ \A i \in 1..Len(doc) : doc[i].anchor => DictHas(links, doc[i].text)
    /\ \A i, j \in 1..Len(links) : links[i].k = links[j].k => i = j
    /\ \A i \in 1..Len(links) :
         /\ AnchorsNamed(links[i].k) # {}
         /\ links[i].v = doc[LastAnchor(links[i].k)].href
    /\ \A i, j \in 1..Len(links) :
         i < j => FirstAnchor(links[i].k) < FirstAnchor(links[j].k)

\* C9: anchors sharing a display name leave one entry, whose URL is that of
\* the last of them in document order; the entries stand in the document
\* order in which their names were discovered, and the list items are
\* visited row by row, then cell, list and item.
C9_LastWriteWins ==
    [](C9_State) /\ [][(pc = "harvest" /\ doc' # doc) => LexLess(pos, pos')]_vars

\* Name A, then name B, then name A again with another URL.
C9_Witness ==
    /\ pc = "loop"
    /\ Len(doc) = 3
    /\ doc[1].anchor /\ doc[2].anchor /\ doc[3].anchor
    /\ doc[1].text = doc[3].text /\ doc[1].text # doc[2].text
    /\ doc[1].href # doc[3].href
    /\ DictKeys(links) = <<doc[1].text, doc[2].text>>
    /\ links[1].v = doc[3].href

(***************************************************************************)
(* Properties of the whole run, checked under Spec.                        *)
(***************************************************************************)
Min(a, b) == IF a <= b THEN a ELSE b
LoopEnded == pc \in {"write_data", "table", "write_table", "done"}

\* C2: with cap LIMIT and L links and no extraction failure, exactly
\* min(L, LIMIT) items are processed and the Catalog never holds more than
\* LIMIT records.
C2_ExactCap ==
    /\ Len(data) <= LIMIT
    /\ LoopEnded => Len(data) = Min(Len(links), LIMIT)

OutputOrder == <<"gta_links.json", "gta_vehicles.json", "Vehicles_Table.json">>

\* Whether the observation o is of an input on which the extraction raises.
C6_Raises(o, u) ==
    CASE o.what = "page"  -> (~o.in \/ u = NoneVal)
      [] o.what = "image" -> (~o.in.container \/ ~o.in.anchor \/ o.in.href = NoneVal
                                \/ o.in.href = Text(NoPng))
      [] o.what = "class" -> o.in = Text(ClassOneLine)
      [] o.what = "price" -> o.in = Text(<<"$", "5", ")">>)
      [] o.what = "stat"  -> (~o.in.title \/ ~o.in.data)
      [] o.what = "info"  -> (~o.in.title \/ ~o.in.data \/ (o.in.text = <<>> /\ ~o.in.img)
                                \/ o.in.text = THalf)
      [] OTHER -> FALSE

C6_State ==
    /\ Len(files) <= 3
    /\ \A i \in 1..Len(files) : files[i].path = OutputOrder[i]
    /\ (Len(files) = 0) <=> (pc = "harvest")
    /\ (Len(files) = 0) => (li = 0 /\ cnt = 0 /\ obs = NoObs)
    /\ (Len(files) >= 1) => files[1].content = links
    /\ (Len(files) >= 2) <=> (pc \in {"table", "write_table", "done"})
    /\ (Len(files) >= 2) => files[2].content = data
    /\ (Len(files) = 3) <=> (pc = "done")
    /\ (Len(files) = 3) => files[3].content = table
    /\ (pc = "halted") => Len(files) = 1

C6_Step ==
    /\ pc # "halted"
    /\ (pc # "harvest" /\ obs' # obs /\ C6_Raises(obs', url'))
          => (pc' = "halted" /\ files' = files /\ data' = data)

\* C6: the link mapping is written when the harvest ends and before any
\* detail page is opened, the Catalog only after the traversal loop, the
\* Tabular View last; a failure raised while an item is processed halts the
\* run: nothing runs after it and only the link file exists.
C6_OutputOrder == [](C6_State) /\ [][C6_Step]_vars

\* The run halted on the second of three links, after the first was
\* recorded.
C6_Witness ==
    /\ pc = "halted"
    /\ Len(links) = 3
    /\ li = 2
    /\ Len(data) = 1
    /\ Len(files) = 1

(***************************************************************************)
(* Record fields named by the page: stat titles that collide with the      *)
(* fixed field names.  Checked under SpecFields.                           *)
(***************************************************************************)
PFields ==
    [nav       |-> {TRUE},
     images    |-> GoodImages \cup {Hero(Text(NoPng))},
     classDivs |-> {Text(ClassSuper)},
     prices    |-> {NoneVal},
     statsC    |-> BOOLEAN,
     stats     |-> {Stat("Speed", 40), Stat("link", 40), Stat("image", 40),
                    Stat("Vehicle", 40), StatNoBar("Speed")},
     infosC    |-> {TRUE},
     infos     |-> {InfoText("Seats", T42)}]

FieldsLinks == {LinksOf(<<"A">>), LinksOf(<<"A", "B">>), LinksOf(<<"B", "A", "C">>)}
SpecFields == InitTraverse(FieldsLinks) /\ [][Traverse(PFields)]_vars

\* The number of links whose iteration has completed.
Completed == IF pc = "loop" \/ LoopEnded THEN li ELSE li - 1

EndsWithPng(s) ==
    Len(s) >= 4 /\ LowerText(SubSeq(s, Len(s) - 3, Len(s))) = PngExt

\* C4: at every point of the traversal the Catalog holds one record per
\* link processed so far, keyed by the link's display name, in discovery
\* order; each record has a link field equal to the harvested URL and an
\* image field ending in .png (any case).
C4_CatalogRecords ==
    /\ Len(data) = Completed
    /\ \A i \in 1..Len(data) :
         /\ data[i].k = links[i].k
         /\ DictHas(data[i].v, "link")
         /\ DictGet(data[i].v, "link") = links[i].v
         /\ DictHas(data[i].v, "image")
         /\ IsText(DictGet(data[i].v, "image"))
         /\ EndsWithPng(DictGet(data[i].v, "image")[2])

\* C5: the Tabular View has one entry per Catalog entry, in order; its first
\* field is Vehicle with the Catalog key as value and the remaining fields
\* are the record's fields and values in order; the Catalog is unchanged.
C5_TableView ==
    pc \in {"write_table", "done"} =>
        /\ Len(table) = Len(data)
        /\ \A i \in 1..Len(table) :
             table[i] = <<[k |-> "Vehicle", v |-> NameV(data[i].k)]>> \o data[i].v
        /\ data = files[2].content

(***************************************************************************)
(* The class extractor and the variable `value` it shares with the info    *)
(* extractor.  Checked under SpecClass.                                    *)
(***************************************************************************)
PClass ==
    [nav       |-> {TRUE},
     images    |-> {Hero(Text(PngLower))},
     classDivs |-> {NoneVal, Text(ClassSuper), Text(ClassVans)},
     prices    |-> {NoneVal},
     statsC    |-> {TRUE},
     stats     |-> {Stat("Speed", 40)},
     infosC    |-> BOOLEAN,
     infos     |-> {InfoText("Seats", T42), InfoText("Seats", TTwoLines),
                    InfoIcon("Seats", Text(IconCheck))}]

SpecClass == InitTraverse({LinksOf(<<"A">>), LinksOf(<<"A", "B">>)}) /\ [][Traverse(PClass)]_vars

\* C10: the CLASS of a record comes from the class div of the item's own
\* page; on a page without such a div nothing computed for an earlier item
\* ends up in the record.
C10_ClassIsolation ==
    (obs.what = "class" /\ pc # "halted") =>
        IF obs.in = NoneVal
        THEN ~DictHas(record, "CLASS")
        ELSE DictHas(record, "CLASS") /\ DictGet(record, "CLASS") = ClassOf(obs.in).v

(***************************************************************************)
(* The price extractor.  Checked under SpecPrice.                          *)
(***************************************************************************)
PriceAlphabet == {"$", "1", "2", ",", " ", "(", ")", "\n", "-", "a"}
\* "$1,234,567 (approx.)"
PriceExample == <<"$", "1", ",", "2", "3", "4", ",", "5", "6", "7", " ",
                  "(", "a", "p", "p", "r", "o", "x", ".", ")">>
PriceTexts ==
    UNION {[1..n -> PriceAlphabet] : n \in 0..MaxPriceLen} \cup {PriceExample}

PPrice ==
    [nav       |-> {TRUE},
     images    |-> {Hero(Text(PngLower))},
     classDivs |-> {Text(ClassSuper)},
     prices    |-> {NoneVal} \cup {Text(t) : t \in PriceTexts},
     statsC    |-> {TRUE},
     stats     |-> {Stat("Speed", 40)},
     infosC    |-> {TRUE},
     infos     |-> {InfoText("Seats", T42)}]

SpecPrice == InitTraverse({LinksOf(<<"A">>)}) /\ [][Traverse(PPrice)]_vars

HasDollar(el) == el # NoneVal /\ \E i \in 1..Len(el[2]) : el[2][i] = "$"

\* The characters of s up to the first space, newline or opening
\* parenthesis, thousands separators and dollar signs left out.
RECURSIVE TokenChars(_)
TokenChars(s) ==
    IF s = <<>> \/ Head(s) \in {" ", "\n", "("} THEN <<>>
    ELSE IF Head(s) \in {",", "$"} THEN TokenChars(Tail(s))
    ELSE <<Head(s)>> \o TokenChars(Tail(s))

\* The token that follows the first dollar sign of t.
TokenAfterDollar(t) ==
    LET first == CHOOSE i \in 1..Len(t) : t[i] = "$" /\ \A j \in 1..(i - 1) : t[j] # "$"
    IN TokenChars(SubSeq(t, first + 1, Len(t)))

AllDigits(s) == s # <<>> /\ \A i \in 1..Len(s) : s[i] \in Digits

RECURSIVE Decimal(_, _)
Decimal(acc, s) ==
    IF s = <<>> THEN acc ELSE Decimal(10 * acc + DigitVal[Head(s)], Tail(s))

\* Whether int() rejects s for a character no integer literal holds.
NoLiteral(s) == s = <<>> \/ \E i \in 1..Len(s) : s[i] \notin Digits \cup {"+", "-", "_"}

InfoLabels == {"Seats", "Drive"}
PInfo ==
    [nav       |-> {TRUE},
     images    |-> {Hero(Text(PngLower))},
     classDivs |-> {Text(ClassSuper)},
     prices    |-> {NoneVal},
     statsC    |-> {TRUE},
     stats     |-> {Stat("Speed", 40)},
     infosC    |-> BOOLEAN,
     infos     |-> {InfoNoTitle, InfoNoData}
                   \cup {InfoNoIcon(l) : l \in InfoLabels}
                   \cup {InfoIcon(l, i) : l \in InfoLabels,
                           i \in {NoneVal, Text(IconCheck), Text(IconCross),
                                  Text(IconLowerCheck), Text(IconChec), Text(CheckMarker)}}
                   \cup {InfoText(l, t) : l \in InfoLabels,
                           t \in {T42, T007, THalf, TDrive, T2Door}}]

SpecInfo == InitTraverse({LinksOf(<<"A">>)}) /\ [][Traverse(PInfo)]_vars

HasCheckMarker(s) ==
    \E i \in 1..Len(s) :
        i + 4 <= Len(s) /\ s[i] = "C" /\ s[i + 1] = "h" /\ s[i + 2] = "e"
            /\ s[i + 3] = "c" /\ s[i + 4] = "k"

\* The value C8 gives the widget w.
C8_Typed(w) ==
    IF w.text = <<>> THEN BoolV(HasCheckMarker(w.icon[2]))
    ELSE IF AllDigits(w.text) THEN IntV(Decimal(0, w.text))
    ELSE Text(w.text)

====
